---- MODULE Spec2Model ----
(***************************************************************************)
(* Audit-log processor of sdk/log: a durable journal (AuditLogStore), a    *)
(* priority queue (container/heap over PriorityQueue) and the export       *)
(* cycle run by the background worker, by goroutines started from OnEmit   *)
(* and loadExistingRecords, and by ForceFlush.                             *)
(***************************************************************************)
EXTENDS Integers, Sequences, FiniteSets, TLC

\* ---------------------------------------------------------------- bounds
\* AuditLogProcessorConfig.MaxExportBatchSize of the modelled processor.
MaxExportBatchSize == 1
\* RetryPolicy.MaxAttempts of the modelled processor.
MaxAttempts == 1
\* Number of OnEmit calls the emitting thread makes (all of them on the
\* first processor, as are the ForceFlush / Shutdown calls).
MaxEmits == 2
\* Number of Exporter.Export calls that may fail.
MaxFailures == 2
\* Number of ForceFlush / Shutdown calls of the controlling thread.
MaxCalls == 1
\* Number of times a new processor is constructed over the same store.
MaxRestarts == 1
\* Number of goroutines started with "go p.exportLogs()" alive at once.
MaxAsync == 1
\* Number of goroutines inside exportLogs at once.
MaxRunning == 2
\* RetryPolicy.InitialBackoff and MaxBackoff in milliseconds, and
\* RetryPolicy.BackoffMultiplier, of the modelled processor.
InitialBackoff == 1
MaxBackoff == 2
BackoffMultiplier == 2
\* Values of time.Now().UnixNano() % 1000 tried for the jitter.
NanoSamples == {0, 999}
\* RetryPolicy values tried when calculateRetryDelay is called on its own:
\* InitialBackoff in 0..MaxInitial, MaxBackoff in 0..MaxCap (milliseconds),
\* BackoffMultiplier in 1..MaxMultiplier, attempts 1..MaxAttemptNumber.
MaxInitial == 2
MaxCap == 5
MaxMultiplier == 3
MaxAttemptNumber == 4
\* Queue lengths 0..MaxQueueLen and MaxExportBatchSize values 1..MaxBatch
\* tried when the pop loop of exportLogs is run on its own.
MaxQueueLen == 4
MaxBatch == 3
\* Number of StorageClient.Set / Delete calls that return an error, and
\* number of adapter calls each thread makes.
MaxBackendFailures == 1
MaxAdapterCalls == 2

\* ---------------------------------------------------------------- records
\* A Record is read through Timestamp(), Body() and Severity() only.
\* R1 and R2 differ in severity only; R3 differs from both in every field.
R1 == [ts |-> 1, body |-> "a", sev |-> "Info"]
R2 == [ts |-> 1, body |-> "a", sev |-> "Warn"]
R3 == [ts |-> 2, body |-> "b", sev |-> "Error"]
Records == {R1, R2, R3}

\* getSeverityPriority handling the first severity of each band only.
getSeverityPriorityBase(severity) ==
    CASE severity = "Trace" -> 1
      [] severity = "Debug" -> 2
      [] severity = "Info" -> 3
      [] severity = "Warn" -> 4
      [] severity = "Error" -> 5
      [] severity = "Fatal" -> 6
      [] OTHER -> 0

getSeverityPriority(severity) ==
    CASE severity \in {"Trace", "Trace2", "Trace3", "Trace4"} -> 1
      [] severity \in {"Debug", "Debug2", "Debug3", "Debug4"} -> 2
      [] severity \in {"Info", "Info2", "Info3", "Info4"} -> 3
      [] severity \in {"Warn", "Warn2", "Warn3", "Warn4"} -> 4
      [] severity \in {"Error", "Error2", "Error3", "Error4"} -> 5
      [] severity \in {"Fatal", "Fatal2", "Fatal3", "Fatal4"} -> 6
      [] OTHER -> 0

PriorityRecord(record) ==
    [Record |-> record, Priority |-> getSeverityPriority(record.sev)]

\* ---------------------------------------------------------------- heap
\* PriorityQueue under container/heap; indices are 0-based as in the source.
At(pq, i) == pq[i + 1]

\* Less ordering the lowest priority first.
LessAscending(pq, i, j) == At(pq, i).Priority < At(pq, j).Priority

Less(pq, i, j) == At(pq, i).Priority > At(pq, j).Priority

Swap(pq, i, j) ==
    [k \in 1..Len(pq) |->
        IF k = i + 1 THEN pq[j + 1] ELSE IF k = j + 1 THEN pq[i + 1] ELSE pq[k]]

RECURSIVE up(_, _)
up(pq, j) ==
    LET i == (j - 1) \div 2
    IN  IF j = 0 \/ i = j \/ ~Less(pq, j, i) THEN pq
        ELSE up(Swap(pq, i, j), i)

RECURSIVE down(_, _, _)
down(pq, i, n) ==
    LET j1 == 2 * i + 1
        j == IF j1 + 1 < n /\ Less(pq, j1 + 1, j1) THEN j1 + 1 ELSE j1
    IN  IF j1 >= n THEN pq
        ELSE IF ~Less(pq, j, i) THEN pq
        ELSE down(Swap(pq, i, j), j, n)

heapPush(pq, x) == up(Append(pq, x), Len(pq))

\* heap.Pop: the popped item and the remaining heap.
heapPop(pq) ==
    LET n == Len(pq) - 1
        h == down(Swap(pq, 0, n), 0, n)
    IN  [item |-> h[n + 1], rest |-> SubSeq(h, 1, n)]

RECURSIVE pushAll(_, _)
pushAll(pq, recs) ==
    IF recs = <<>> THEN pq
    ELSE pushAll(heapPush(pq, PriorityRecord(Head(recs))), Tail(recs))

\* The pop loop of exportLogs: up to batchSize records, highest first.
RECURSIVE popLoop(_, _, _)
popLoop(pq, batchSize, acc) ==
    IF batchSize = 0 \/ Len(pq) = 0 THEN [batch |-> acc, rest |-> pq]
    ELSE LET p == heapPop(pq)
         IN  popLoop(p.rest, batchSize - 1, Append(acc, p.item.Record))

Min(a, b) == IF a < b THEN a ELSE b

\* popBatch without the MaxExportBatchSize cap.
popBatchUncapped(pq) == popLoop(pq, Len(pq), <<>>)

\* The batch of exportLogs under a given MaxExportBatchSize.
popBatchOf(pq, batchSize) == popLoop(pq, Min(batchSize, Len(pq)), <<>>)

popBatch(pq) == popBatchOf(pq, MaxExportBatchSize)

SeqToSet(s) == {s[i] : i \in 1..Len(s)}

\* ---------------------------------------------------------------- stores
\* bodyStr of the stores' identifiers: "" for an empty body (Kind() == 0).
bodyStr(record) == record.body

\* AuditLogInMemoryStore.RemoveAll: id := Sprintf("%d_%s", UnixNano, bodyStr).
memoryId(record) == <<record.ts, bodyStr(record)>>

memorySave(recs, record) == Append(recs, record)

memoryRemoveAll(recs, batch) ==
    IF Len(batch) = 0 THEN recs
    ELSE LET recordsToRemove == {memoryId(batch[i]) : i \in 1..Len(batch)}
         IN  SelectSeq(recs, LAMBDA x : memoryId(x) \notin recordsToRemove)

memoryGetAll(recs) == recs

\* Number of characters of Sprintf("%d", n), n >= 0.
RECURSIVE decimalLen(_)
decimalLen(n) == IF n < 10 THEN 1 ELSE 1 + decimalLen(n \div 10)

\* log.Severity.String() of the severities used here.
severityString(severity) ==
    CASE severity = "Info" -> "INFO"
      [] severity = "Error" -> "ERROR"
      [] severity = "Warn" -> "WARN"
      [] severity = "Debug" -> "DEBUG"
      [] severity = "Fatal" -> "FATAL"
      [] severity = "Trace" -> "TRACE"
      [] OTHER -> "UNDEFINED"

\* AuditLogFileStore.generateRecordId: the decimal LENGTH of
\* Sprintf("%d_%s_%s", UnixNano, bodyStr, Severity.String()); the returned
\* string Sprintf("%d", len(id)) is represented by that number.
generateRecordId(record) ==
    decimalLen(record.ts) + 1 + Len(bodyStr(record)) + 1
        + Len(severityString(record.sev))

\* json.Encoder.Encode(record) / Decoder.Decode(&record) of one file line.
encodeLine(record) == [ts |-> record.ts, body |-> record.body, sev |-> record.sev]
decodeLine(line) == [ts |-> line.ts, body |-> line.body, sev |-> line.sev]

\* AuditLogFileStore.Save: skipped when the id is already in loggedRecords.
fileSave(st, record) ==
    LET recordId == generateRecordId(record)
    IN  IF recordId \in st.loggedRecords THEN st
        ELSE [file |-> Append(st.file, encodeLine(record)),
              loggedRecords |-> st.loggedRecords \cup {recordId}]

\* AuditLogFileStore.Save returning an error: os.OpenFile or encoder.Encode
\* failed (nothing written), or file.WriteString("\n") failed after
\* encoder.Encode had written the line (written = TRUE). loggedRecords is
\* set only on success.
fileSaveFails(st, record, written) ==
    [file |-> IF written THEN Append(st.file, encodeLine(record)) ELSE st.file,
     loggedRecords |-> st.loggedRecords]

\* AuditLogFileStore.RemoveAll; ctxDoneAt = k > 0 means ctx.Done() is seen
\* before the k-th line is decoded (the file is then not rewritten),
\* ctxDoneAt = 0 that ctx stays live.
fileRemoveAll(st, batch, ctxDoneAt) ==
    IF Len(batch) = 0 THEN st
    ELSE LET recordIdsToRemove == {generateRecordId(batch[i]) : i \in 1..Len(batch)}
             scanned == IF ctxDoneAt = 0 THEN Len(st.file) ELSE ctxDoneAt - 1
             dropped == {generateRecordId(decodeLine(st.file[i])) : i \in 1..scanned}
                            \cap recordIdsToRemove
             remainingRecords ==
                 SelectSeq(st.file,
                     LAMBDA l : generateRecordId(decodeLine(l)) \notin recordIdsToRemove)
         IN  [file |-> IF ctxDoneAt = 0 THEN remainingRecords ELSE st.file,
              loggedRecords |-> st.loggedRecords \ dropped]

fileGetAll(st) == [i \in 1..Len(st.file) |-> decodeLine(st.file[i])]

\* NewAuditLogFileStore -> loadExistingRecordIds over the existing file.
NewAuditLogFileStore(file) ==
    [file |-> file,
     loggedRecords |-> {generateRecordId(decodeLine(file[i])) : i \in 1..Len(file)}]

\* ------------------------------------------- key-value storage adapter
\* Records given to AuditLogStorageExtensionAdapter: kind is Body().Kind(),
\* body the content of the value ("" for the empty value).
K1 == [ts |-> 1, body |-> "a", kind |-> "String", sev |-> "Info"]
K2 == [ts |-> 1, body |-> "5", kind |-> "Int64", sev |-> "Warn"]
K3 == [ts |-> 2, body |-> "", kind |-> "Empty", sev |-> "Error"]
KVRecords == {K1, K2, K3}

\* log.Value.String(): the content of a string or number, "<nil>" for the
\* empty value.
valueString(record) == IF record.kind = "Empty" THEN "<nil>" ELSE record.body

\* The bytes of the strings that occur in record identifiers.
bytes(s) ==
    CASE s = "" -> <<>>
      [] s = "a" -> <<97>>
      [] s = "5" -> <<53>>
      [] s = "<nil>" -> <<60, 110, 105, 108, 62>>
      [] s = "INFO" -> <<73, 78, 70, 79>>
      [] s = "WARN" -> <<87, 65, 82, 78>>
      [] s = "ERROR" -> <<69, 82, 82, 79, 82>>

\* The bytes of Sprintf("%d", n), n >= 0.
RECURSIVE decimalBytes(_)
decimalBytes(n) ==
    IF n < 10 THEN <<48 + n>> ELSE Append(decimalBytes(n \div 10), 48 + (n % 10))

\* a XOR b of two n-bit numbers.
RECURSIVE xorBits(_, _, _)
xorBits(a, b, n) ==
    IF n = 0 THEN 0
    ELSE (((a % 2) + (b % 2)) % 2) + 2 * xorBits(a \div 2, b \div 2, n - 1)

\* A uint64 is kept as four 16-bit limbs, least significant first.
\* 14695981039346656037 = 0xcbf29ce484222325.
hashOffset == <<8997, 33826, 40164, 52210>>

\* h ^= uint64(c); h *= 1099511628211 (= 2^40 + 435), modulo 2^64.
hashStep(h, c) ==
    LET x0 == xorBits(h[1] % 256, c, 8) + 256 * (h[1] \div 256)
        x == <<x0, h[2], h[3], h[4]>>
        p0 == x[1] * 435
        p1 == x[2] * 435 + (p0 \div 65536)
        p2 == x[3] * 435 + (p1 \div 65536) + (x[1] % 256) * 256
        p3 == x[4] * 435 + (p2 \div 65536) + (x[2] % 256) * 256 + (x[1] \div 256)
    IN  <<p0 % 65536, p1 % 65536, p2 % 65536, p3 % 65536>>

RECURSIVE hashFrom(_, _)
hashFrom(h, s) ==
    IF s = <<>> THEN h ELSE hashFrom(hashStep(h, Head(s)), Tail(s))

\* hash(s): FNV-1a over the bytes of s.
hash(s) == hashFrom(hashOffset, s)

\* AuditLogStorageExtensionAdapter.generateRecordID: the hash of
\* Sprintf("%d_%s_%s", UnixNano, bodyStr, Severity.String()), bodyStr being ""
\* for a body of Kind() 0; the decimal string Sprintf("%d", hash(id)) is
\* represented by the limbs of the number.
generateRecordID(record) ==
    LET kvBodyStr == IF record.kind # "Empty" THEN valueString(record) ELSE ""
    IN  hash(decimalBytes(record.ts) \o <<95>> \o bytes(kvBodyStr) \o <<95>>
                \o bytes(severityString(record.sev)))

\* serializeRecord: recordData as json.Marshal writes it (the fields read
\* back by deserializeRecord, and BodyKind).
serializeRecord(record) ==
    [Timestamp |-> record.ts, Severity |-> record.sev,
     Body |-> valueString(record), BodyKind |-> record.kind]

\* deserializeRecord: the body is always log.StringValue(rd.Body).
deserializeRecord(data) ==
    [ts |-> data.Timestamp, body |-> data.Body, kind |-> "String",
     sev |-> data.Severity]

\* StorageClient: index is the value of indexKey (hasIndex: the key is
\* set), data the values of the "audit_record_<id>" keys that are set.
NewStorageClient == [hasIndex |-> FALSE, index |-> <<>>, data |-> <<>>]

\* client.Set / client.Delete of a record key, client.Set of the index key.
SetRecord(c, id, value) ==
    [c EXCEPT !.data = [k \in DOMAIN c.data \cup {id} |->
                           IF k = id THEN value ELSE c.data[k]]]

DeleteRecord(c, id) ==
    [c EXCEPT !.data = [k \in DOMAIN c.data \ {id} |-> c.data[k]]]

SetIndex(c, index) == [c EXCEPT !.hasIndex = TRUE, !.index = index]

\* getIndex: a failed Get (the key is not set) gives the empty index.
getIndex(c) == IF c.hasIndex THEN c.index ELSE <<>>

\* The read loop of AuditLogStorageExtensionAdapter.GetAll: the ids of the
\* index whose record key is set (every stored value decodes).
loadedIds(c) == SelectSeq(getIndex(c), LAMBDA id : id \in DOMAIN c.data)

adapterGetAll(c) ==
    LET ids == loadedIds(c)
    IN  [i \in 1..Len(ids) |-> deserializeRecord(c.data[ids[i]])]


\* ---------------------------------------------------------------- state
VARIABLES
    storeKind,            \* which AuditLogStore config.AuditLogStore is
    records,              \* AuditLogInMemoryStore.records
    fileStore,            \* AuditLogFileStore: the log file and loggedRecords
    queue,                \* AuditLogProcessor.queue (heap array)
    shutdown,             \* AuditLogProcessor.shutdown
    currentRetryAttempt,  \* AuditLogProcessor.currentRetryAttempt
    lastRetryTimestamp,   \* AuditLogProcessor.lastRetryTimestamp
    stopChan,             \* number of close(p.stopChan) executed
    now,                  \* time.Now().UnixMilli()
    pc,                   \* position of every thread / goroutine
    recordsToExport,      \* exportLogs' local batch, per goroutine
    currentAttempt,       \* handleExportFailure's local, per goroutine
    emitRecord,           \* the record of the OnEmit in progress (or just rejected)
    op,                   \* the call the controlling thread is in
    ctxDone,              \* whether the ctx of the (last) call is cancelled / expired
    ret,                  \* last value returned to each calling thread
    \* history of the run
    emitted,              \* records for which OnEmit returned nil
    handed,               \* records passed to Exporter.Export so far
    exported,             \* records of Export calls that returned nil
    cycleStart,           \* queue content when each running cycle began
    exceptions,           \* ExceptionHandler.Handle calls: their number, the last one
    atShutdown,           \* queue content when Shutdown was first called
    attempts,             \* per record: number of Export calls that included it
    atFlush,              \* records emitted when ForceFlush was called
    counts,               \* how often the bounded inputs were used
    \* functions and store methods called on their own
    call,                 \* the last call: its arguments and what it returned
    \* AuditLogStorageExtensionAdapter over a StorageClient
    client,               \* StorageClient: the index value and the record keys
    mutex,                \* AuditLogStorageExtensionAdapter.mutex: its holder
    kvpc,                 \* position of every thread using the adapter
    kvcall,               \* the adapter call each thread is in, with its locals
    kvret,                \* what the last adapter call of each thread returned
    kvhist                \* history of the adapter: calls returned, failures used

vars == <<storeKind, records, fileStore, queue, shutdown, currentRetryAttempt,
          lastRetryTimestamp, stopChan, now, pc, recordsToExport,
          currentAttempt, emitRecord, op, ctxDone, ret, emitted, handed,
          exported, cycleStart, exceptions, atShutdown, attempts, atFlush,
          counts, call, client, mutex, kvpc, kvcall, kvret, kvhist>>

\* The processor's own state, and the state of calls made outside it.
processorVars == <<storeKind, records, fileStore, queue, shutdown,
                   currentRetryAttempt, lastRetryTimestamp, stopChan, now, pc,
                   recordsToExport, currentAttempt, emitRecord, op, ctxDone,
                   ret, emitted, handed, exported, cycleStart, exceptions,
                   atShutdown, attempts, atFlush, counts>>
adapterVars == <<client, mutex, kvpc, kvcall, kvret, kvhist>>
standaloneVars == <<call, adapterVars>>

storeVars == <<storeKind, records, fileStore>>
retryVars == <<currentRetryAttempt, lastRetryTimestamp>>
historyVars == <<emitted, handed, exported, exceptions, atShutdown, attempts,
                 atFlush>>

Worker == <<"worker", 0>>
Caller == <<"caller", 0>>
Emitter == <<"emitter", 0>>
Async == {<<"async", i>> : i \in 1..MaxAsync}
Cyclers == {Worker, Caller} \cup Async
Other == <<"other", 0>>
Procs == Cyclers \cup {Emitter}

\* First reading of the clock: later than any backoff delay after time 0.
Epoch == 2 * MaxBackoff + 1

NoRecord == [ts |-> 0, body |-> "", sev |-> "Undefined"]

\* No function has been called on its own yet.
NoCall == [fn |-> "none"]

\* The threads that use one AuditLogStorageExtensionAdapter: the emitting
\* thread and an export cycle.
KvThreads == {"emit", "export"}

NoKvCall == [op |-> "none", records |-> <<>>, ids |-> <<>>, i |-> 0, index |-> <<>>]
NoKvRet == [op |-> "none", err |-> "nil", records |-> <<>>, ids |-> <<>>]

\* NewAuditLogStorageExtensionAdapter over a client with no key set.
InitAdapter ==
    /\ client = NewStorageClient
    /\ mutex = "free"
    /\ kvpc = [t \in KvThreads |-> "idle"]
    /\ kvcall = [t \in KvThreads |-> NoKvCall]
    /\ kvret = [t \in KvThreads |-> NoKvRet]
    /\ kvhist = [saved |-> {}, live |-> {}, order |-> <<>>, failures |-> 0,
                 calls |-> [t \in KvThreads |-> 0], contended |-> FALSE]

\* AuditLogStore.GetAll of the configured store.
GetAll ==
    IF storeKind = "memory" THEN memoryGetAll(records) ELSE fileGetAll(fileStore)

InJournal(r) == r \in SeqToSet(GetAll)

QueueRecords(pq) == {pq[i].Record : i \in 1..Len(pq)}

\* Where a goroutine continues when exportLogs returns.
AfterCycle(t) ==
    IF t = Worker THEN "select" ELSE IF t = Caller THEN "ff_select" ELSE "free"

InitWith(kind) ==
    /\ storeKind = kind
    /\ records = <<>>
    /\ fileStore = NewAuditLogFileStore(<<>>)
    /\ queue = <<>>
    /\ shutdown = FALSE
    /\ currentRetryAttempt = 0
    /\ lastRetryTimestamp = 0
    /\ stopChan = 0
    /\ now = Epoch
    /\ pc = [t \in Procs |->
                IF t = Worker THEN "select"
                ELSE IF t \in Async THEN
                    (IF t = <<"async", 1>> THEN "e_shutdown" ELSE "free")
                ELSE "idle"]
    /\ recordsToExport = [t \in Cyclers |-> <<>>]
    /\ currentAttempt = [t \in Cyclers |-> 0]
    /\ emitRecord = NoRecord
    /\ op = "none"
    /\ ctxDone = FALSE
    /\ ret = [t \in {Caller, Emitter, Other} |-> "none"]
    /\ emitted = {}
    /\ handed = {}
    /\ exported = {}
    /\ cycleStart = [t \in Cyclers |-> {}]
    /\ exceptions = [count |-> 0, kind |-> "none", LogRecords |-> <<>>]
    /\ atShutdown = {}
    /\ attempts = [r \in Records |-> 0]
    /\ atFlush = {}
    /\ counts = [emits |-> 0, failures |-> 0, calls |-> 0, restarts |-> 0]
    /\ call = NoCall
    /\ InitAdapter

\* ---------------------------------------------------------------- retry
\* calculateRetryDelay in milliseconds; nano is time.Now().UnixNano()%1000.
\* delay + 0.25*delay*(nano/1000 - 0.5) = delay*(3500 + nano)/4000,
\* truncated by int64().
\* nominalDelay without the MaxBackoff cap.
nominalDelayUncapped(policy, attemptNumber) ==
    policy.InitialBackoff * (policy.BackoffMultiplier * (attemptNumber - 1))

\* The delay of calculateRetryDelay before the jitter is added, under a
\* given RetryPolicy.
nominalDelay(policy, attemptNumber) ==
    LET raw == policy.InitialBackoff
                   * (policy.BackoffMultiplier * (attemptNumber - 1))
    IN  IF raw > policy.MaxBackoff THEN policy.MaxBackoff ELSE raw

retryDelay(policy, attemptNumber, nano) ==
    LET delay == nominalDelay(policy, attemptNumber)
        jittered == delay * (3500 + nano)
    IN  IF jittered < 0 THEN 0 ELSE jittered \div 4000

\* config.RetryPolicy of the modelled processor.
RetryPolicy ==
    [InitialBackoff |-> InitialBackoff, MaxBackoff |-> MaxBackoff,
     BackoffMultiplier |-> BackoffMultiplier]

calculateRetryDelay(attemptNumber, nano) ==
    retryDelay(RetryPolicy, attemptNumber, nano)

\* ---------------------------------------------------------------- OnEmit
Bump(field) == [counts EXCEPT ![field] = @ + 1]

Handle(kind, recs) ==
    [count |-> exceptions.count + 1, kind |-> kind, LogRecords |-> recs]

\* EmitStart without the p.shutdown.Load() check.
EmitStartUnchecked(record) ==
    /\ pc[Emitter] = "idle"
    /\ counts.emits < MaxEmits
    /\ counts.restarts = 0
    /\ counts' = Bump("emits")
    /\ pc' = [pc EXCEPT ![Emitter] = "em_save"]
    /\ emitRecord' = record
    /\ UNCHANGED <<standaloneVars,
                   storeVars, queue, shutdown, retryVars, stopChan, now,
                   recordsToExport, currentAttempt, op, ctxDone, ret,
                   historyVars, cycleStart>>

\* OnEmit up to the shutdown check (record != nil).
EmitStart(record) ==
    /\ pc[Emitter] = "idle"
    /\ counts.emits < MaxEmits
    /\ counts.restarts = 0
    /\ counts' = Bump("emits")
    /\ IF shutdown
       THEN /\ exceptions' = Handle("ShutDown", <<record>>)
            /\ ret' = [ret EXCEPT ![Emitter] = "ShutDown"]
            /\ emitRecord' = record
            /\ UNCHANGED pc
       ELSE /\ pc' = [pc EXCEPT ![Emitter] = "em_save"]
            /\ emitRecord' = record
            /\ UNCHANGED <<exceptions, ret>>
    /\ UNCHANGED <<standaloneVars,
                   storeVars, queue, shutdown, retryVars, stopChan, now,
                   recordsToExport, currentAttempt, op, ctxDone, emitted,
                   handed, exported, cycleStart, atShutdown, attempts,
                   atFlush>>

\* p.config.AuditLogStore.Save(ctx, record).
EmitSave ==
    /\ pc[Emitter] = "em_save"
    /\ IF storeKind = "memory"
       THEN /\ records' = memorySave(records, emitRecord)
            /\ UNCHANGED fileStore
       ELSE /\ fileStore' = fileSave(fileStore, emitRecord)
            /\ UNCHANGED records
    /\ pc' = [pc EXCEPT ![Emitter] = "em_push"]
    /\ UNCHANGED <<standaloneVars,
                   storeKind, queue, shutdown, retryVars, stopChan, now,
                   recordsToExport, currentAttempt, emitRecord, op, ctxDone,
                   ret, historyVars, cycleStart, counts>>

\* Save returns an error (file store; a known id returns nil before any
\* I/O): the ExceptionHandler gets the record and OnEmit returns the
\* exception without touching the queue.
EmitSaveFails ==
    /\ pc[Emitter] = "em_save"
    /\ storeKind = "file"
    /\ generateRecordId(emitRecord) \notin fileStore.loggedRecords
    /\ \E written \in BOOLEAN :
          fileStore' = fileSaveFails(fileStore, emitRecord, written)
    /\ exceptions' = Handle("StorageSave", <<emitRecord>>)
    /\ ret' = [ret EXCEPT ![Emitter] = "StorageSave"]
    /\ pc' = [pc EXCEPT ![Emitter] = "idle"]
    /\ UNCHANGED <<standaloneVars,
                   storeKind, records, queue, shutdown, retryVars, stopChan,
                   now, recordsToExport, currentAttempt, emitRecord, op,
                   ctxDone, emitted, handed, exported, cycleStart,
                   atShutdown, attempts, atFlush, counts>>

\* EmitPush honouring config.WaitOnExport: it waits until no Export call
\* is in flight.
EmitPushWaiting ==
    /\ pc[Emitter] = "em_push"
    /\ \A t \in Cyclers : pc[t] # "e_inflight"
    /\ queue' = heapPush(queue, PriorityRecord(emitRecord))
    /\ IF Len(queue') >= MaxExportBatchSize
       THEN \E a \in Async :
                /\ pc[a] = "free"
                /\ pc' = [pc EXCEPT ![a] = "e_shutdown", ![Emitter] = "idle"]
       ELSE pc' = [pc EXCEPT ![Emitter] = "idle"]
    /\ emitted' = emitted \cup {emitRecord}
    /\ ret' = [ret EXCEPT ![Emitter] = "nil"]
    /\ emitRecord' = NoRecord
    /\ UNCHANGED <<standaloneVars,
                   storeVars, shutdown, retryVars, stopChan, now,
                   recordsToExport, currentAttempt, op, ctxDone, handed,
                   exported, cycleStart, exceptions, atShutdown, attempts,
                   atFlush, counts>>

\* heap.Push under queueMutex, "go p.exportLogs()" when the queue is long
\* enough, return nil.
EmitPush ==
    /\ pc[Emitter] = "em_push"
    /\ queue' = heapPush(queue, PriorityRecord(emitRecord))
    /\ IF Len(queue') >= MaxExportBatchSize
       THEN \E a \in Async :
                /\ pc[a] = "free"
                /\ pc' = [pc EXCEPT ![a] = "e_shutdown", ![Emitter] = "idle"]
       ELSE pc' = [pc EXCEPT ![Emitter] = "idle"]
    /\ emitted' = emitted \cup {emitRecord}
    /\ ret' = [ret EXCEPT ![Emitter] = "nil"]
    /\ emitRecord' = NoRecord
    /\ UNCHANGED <<standaloneVars,
                   storeVars, shutdown, retryVars, stopChan, now,
                   recordsToExport, currentAttempt, op, ctxDone, handed,
                   exported, cycleStart, exceptions, atShutdown, attempts,
                   atFlush, counts>>

\* ---------------------------------------------------------------- exportLogs
Return(t) == [pc EXCEPT ![t] = AfterCycle(t)]

\* Goroutines that have entered exportLogs and not yet returned; those at
\* "e_shutdown" are about to enter it.
Running == {t \in Cyclers : pc[t] \notin {"select", "exited", "free", "idle",
                "sd_close", "sd_wait", "ff_shutdown", "ff_len", "ff_select",
                "e_shutdown"}}

\* if p.shutdown.Load() { return }
CycleShutdownCheck(t) ==
    /\ pc[t] = "e_shutdown"
    /\ Cardinality(Running) < MaxRunning
    /\ IF shutdown
       THEN /\ pc' = Return(t)
            /\ UNCHANGED cycleStart
       ELSE /\ pc' = [pc EXCEPT ![t] = "e_empty"]
            /\ cycleStart' = [cycleStart EXCEPT ![t] = QueueRecords(queue)]
    /\ UNCHANGED <<standaloneVars,
                   storeVars, queue, shutdown, retryVars, stopChan, now,
                   recordsToExport, currentAttempt, emitRecord, op, ctxDone,
                   ret, historyVars, counts>>

\* if p.queue.Len() == 0 { return }
CycleEmptyCheck(t) ==
    /\ pc[t] = "e_empty"
    /\ IF Len(queue) = 0
       THEN /\ pc' = Return(t)
            /\ cycleStart' = [cycleStart EXCEPT ![t] = {}]
       ELSE /\ pc' = [pc EXCEPT ![t] = "e_backoff"]
            /\ UNCHANGED cycleStart
    /\ UNCHANGED <<standaloneVars,
                   storeVars, queue, shutdown, retryVars, stopChan, now,
                   recordsToExport, currentAttempt, emitRecord, op, ctxDone,
                   ret, historyVars, counts>>

\* The backoff window: timeSinceLastRetry < requiredDelay returns.
InBackoff(nano) ==
    /\ currentRetryAttempt > 0
    /\ now - lastRetryTimestamp < calculateRetryDelay(currentRetryAttempt, nano)

CycleBackoffCheck(t) ==
    /\ pc[t] = "e_backoff"
    /\ \E nano \in NanoSamples :
          IF InBackoff(nano)
          THEN /\ pc' = Return(t)
               /\ cycleStart' = [cycleStart EXCEPT ![t] = {}]
          ELSE /\ pc' = [pc EXCEPT ![t] = "e_pop"]
               /\ UNCHANGED cycleStart
    /\ UNCHANGED <<standaloneVars,
                   storeVars, queue, shutdown, retryVars, stopChan, now,
                   recordsToExport, currentAttempt, emitRecord, op, ctxDone,
                   ret, historyVars, counts>>

\* Pop up to MaxExportBatchSize records under queueMutex.
CyclePop(t) ==
    /\ pc[t] = "e_pop"
    /\ LET p == popBatch(queue)
       IN  /\ queue' = p.rest
           /\ recordsToExport' = [recordsToExport EXCEPT ![t] = p.batch]
    /\ pc' = [pc EXCEPT ![t] = "e_len"]
    /\ UNCHANGED <<standaloneVars,
                   storeVars, shutdown, retryVars, stopChan, now,
                   currentAttempt, emitRecord, op, ctxDone, ret, historyVars,
                   cycleStart, counts>>

\* if len(recordsToExport) == 0 { return }; else Exporter.Export is called.
CycleExport(t) ==
    /\ pc[t] = "e_len"
    /\ IF Len(recordsToExport[t]) = 0
       THEN /\ pc' = Return(t)
            /\ UNCHANGED <<handed, attempts>>
       ELSE /\ pc' = [pc EXCEPT ![t] = "e_inflight"]
            /\ handed' = handed \cup SeqToSet(recordsToExport[t])
            /\ attempts' = [r \in Records |->
                   attempts[r] + Cardinality({i \in 1..Len(recordsToExport[t]) :
                                                recordsToExport[t][i] = r})]
    /\ cycleStart' = [cycleStart EXCEPT ![t] = {}]
    /\ UNCHANGED <<standaloneVars,
                   storeVars, queue, shutdown, retryVars, stopChan, now,
                   recordsToExport, currentAttempt, emitRecord, op, ctxDone,
                   ret, emitted, exported, exceptions, atShutdown, atFlush,
                   counts>>

\* Exporter.Export returns nil: p.currentRetryAttempt.Store(0).
ExportSucceeds(t) ==
    /\ pc[t] = "e_inflight"
    /\ exported' = exported \cup SeqToSet(recordsToExport[t])
    /\ currentRetryAttempt' = 0
    /\ pc' = [pc EXCEPT ![t] = "e_ok_ts"]
    /\ UNCHANGED <<standaloneVars,
                   storeVars, queue, shutdown, lastRetryTimestamp, stopChan,
                   now, recordsToExport, currentAttempt, emitRecord, op,
                   ctxDone, ret, emitted, handed, cycleStart,
                   exceptions, atShutdown, attempts, atFlush, counts>>

\* Exporter.Export returns an error: handleExportFailure begins with
\* currentAttempt := p.currentRetryAttempt.Add(1).
ExportReturnsError(t) ==
    /\ pc[t] = "e_inflight"
    /\ counts' = Bump("failures")
    /\ currentRetryAttempt' = currentRetryAttempt + 1
    /\ currentAttempt' = [currentAttempt EXCEPT ![t] = currentRetryAttempt + 1]
    /\ pc' = [pc EXCEPT ![t] = "f_ts"]
    /\ UNCHANGED <<standaloneVars,
                   storeVars, queue, shutdown, lastRetryTimestamp, stopChan,
                   now, recordsToExport, emitRecord, op, ctxDone, ret,
                   historyVars, cycleStart>>

\* At most MaxFailures Export calls return an error.
ExportFails(t) ==
    /\ counts.failures < MaxFailures
    /\ ExportReturnsError(t)

\* p.lastRetryTimestamp.Store(0) on the success path.
SuccessResetTimestamp(t) ==
    /\ pc[t] = "e_ok_ts"
    /\ lastRetryTimestamp' = 0
    /\ pc' = [pc EXCEPT ![t] = "e_remove"]
    /\ UNCHANGED <<standaloneVars,
                   storeVars, queue, shutdown, currentRetryAttempt, stopChan,
                   now, recordsToExport, currentAttempt, emitRecord, op,
                   ctxDone, ret, historyVars, cycleStart, counts>>

\* p.config.AuditLogStore.RemoveAll(ctx, recordsToExport); an error is
\* only printed.
SuccessRemoveAll(t) ==
    /\ pc[t] = "e_remove"
    /\ IF storeKind = "memory"
       THEN /\ records' = memoryRemoveAll(records, recordsToExport[t])
            /\ UNCHANGED fileStore
       ELSE /\ \E ctxDoneAt \in 0..(Len(fileStore.file) + 1) :
                  fileStore' = fileRemoveAll(fileStore, recordsToExport[t], ctxDoneAt)
            /\ UNCHANGED records
    /\ pc' = Return(t)
    /\ recordsToExport' = [recordsToExport EXCEPT ![t] = <<>>]
    /\ UNCHANGED <<standaloneVars,
                   storeKind, queue, shutdown, retryVars, stopChan, now,
                   currentAttempt, emitRecord, op, ctxDone, ret, historyVars,
                   cycleStart, counts>>

\* p.lastRetryTimestamp.Store(time.Now().UnixMilli()) in handleExportFailure.
FailureTimestamp(t) ==
    /\ pc[t] = "f_ts"
    /\ lastRetryTimestamp' = now
    /\ pc' = [pc EXCEPT ![t] = "f_branch"]
    /\ UNCHANGED <<standaloneVars,
                   storeVars, queue, shutdown, currentRetryAttempt, stopChan,
                   now, recordsToExport, currentAttempt, emitRecord, op,
                   ctxDone, ret, historyVars, cycleStart, counts>>

\* FailureBranch comparing with < in place of <=: one attempt fewer.
FailureBranchStrict(t) ==
    /\ pc[t] = "f_branch"
    /\ IF currentAttempt[t] < MaxAttempts
       THEN /\ queue' = pushAll(queue, recordsToExport[t])
            /\ pc' = Return(t)
            /\ recordsToExport' = [recordsToExport EXCEPT ![t] = <<>>]
            /\ currentAttempt' = [currentAttempt EXCEPT ![t] = 0]
            /\ UNCHANGED currentRetryAttempt
       ELSE /\ currentRetryAttempt' = 0
            /\ pc' = [pc EXCEPT ![t] = "f_reset_ts"]
            /\ UNCHANGED <<queue, recordsToExport, currentAttempt>>
    /\ UNCHANGED <<standaloneVars,
                   storeVars, shutdown, lastRetryTimestamp, stopChan, now,
                   emitRecord, op, ctxDone, ret, historyVars, cycleStart,
                   counts>>

\* FailureBranch returning without pushing the batch back.
FailureBranchNoRequeue(t) ==
    /\ pc[t] = "f_branch"
    /\ IF currentAttempt[t] <= MaxAttempts
       THEN /\ queue' = queue
            /\ pc' = Return(t)
            /\ recordsToExport' = [recordsToExport EXCEPT ![t] = <<>>]
            /\ currentAttempt' = [currentAttempt EXCEPT ![t] = 0]
            /\ UNCHANGED currentRetryAttempt
       ELSE /\ currentRetryAttempt' = 0
            /\ pc' = [pc EXCEPT ![t] = "f_reset_ts"]
            /\ UNCHANGED <<queue, recordsToExport, currentAttempt>>
    /\ UNCHANGED <<standaloneVars,
                   storeVars, shutdown, lastRetryTimestamp, stopChan, now,
                   emitRecord, op, ctxDone, ret, historyVars, cycleStart,
                   counts>>

\* currentAttempt <= MaxAttempts: push the batch back and return;
\* otherwise p.currentRetryAttempt.Store(0).
FailureBranch(t) ==
    /\ pc[t] = "f_branch"
    /\ IF currentAttempt[t] <= MaxAttempts
       THEN /\ queue' = pushAll(queue, recordsToExport[t])
            /\ pc' = Return(t)
            /\ recordsToExport' = [recordsToExport EXCEPT ![t] = <<>>]
            /\ currentAttempt' = [currentAttempt EXCEPT ![t] = 0]
            /\ UNCHANGED currentRetryAttempt
       ELSE /\ currentRetryAttempt' = 0
            /\ pc' = [pc EXCEPT ![t] = "f_reset_ts"]
            /\ UNCHANGED <<queue, recordsToExport, currentAttempt>>
    /\ UNCHANGED <<standaloneVars,
                   storeVars, shutdown, lastRetryTimestamp, stopChan, now,
                   emitRecord, op, ctxDone, ret, historyVars, cycleStart,
                   counts>>

\* p.lastRetryTimestamp.Store(0), then the ExceptionHandler gets the batch.
FailureGiveUp(t) ==
    /\ pc[t] = "f_reset_ts"
    /\ lastRetryTimestamp' = 0
    /\ exceptions' = Handle("ExportFailedPermanently", recordsToExport[t])
    /\ pc' = Return(t)
    /\ recordsToExport' = [recordsToExport EXCEPT ![t] = <<>>]
    /\ currentAttempt' = [currentAttempt EXCEPT ![t] = 0]
    /\ UNCHANGED <<standaloneVars,
                   storeVars, queue, shutdown, currentRetryAttempt, stopChan,
                   now, emitRecord, op, ctxDone, ret, emitted, handed,
                   exported, cycleStart, atShutdown, attempts, atFlush,
                   counts>>

\* ---------------------------------------------------------------- worker
\* startBackgroundProcessing: case <-ticker.C: p.exportLogs().
WorkerTick ==
    /\ pc[Worker] = "select"
    /\ pc' = [pc EXCEPT ![Worker] = "e_shutdown"]
    /\ UNCHANGED <<standaloneVars,
                   storeVars, queue, shutdown, retryVars, stopChan, now,
                   recordsToExport, currentAttempt, emitRecord, op, ctxDone,
                   ret, historyVars, cycleStart, counts>>

\* case <-p.stopChan: return (and wg.Done()).
WorkerStop ==
    /\ pc[Worker] = "select"
    /\ stopChan > 0
    /\ pc' = [pc EXCEPT ![Worker] = "exited"]
    /\ UNCHANGED <<standaloneVars,
                   storeVars, queue, shutdown, retryVars, stopChan, now,
                   recordsToExport, currentAttempt, emitRecord, op, ctxDone,
                   ret, historyVars, cycleStart, counts>>

\* ---------------------------------------------------------------- ForceFlush
ReturnToCaller(value) ==
    /\ pc' = [pc EXCEPT ![Caller] = "idle"]
    /\ ret' = [ret EXCEPT ![Caller] = value]
    /\ op' = "none"
    /\ ctxDone' = (ctxDone \/ value = "ctxErr")

\* A thread calls ForceFlush(ctx); ctx may already be cancelled.
CallForceFlush ==
    /\ pc[Caller] = "idle"
    /\ counts.calls < MaxCalls
    /\ counts.restarts = 0
    /\ counts' = Bump("calls")
    /\ op' = "ForceFlush"
    /\ ctxDone' \in BOOLEAN
    /\ pc' = [pc EXCEPT ![Caller] = "ff_shutdown"]
    /\ atFlush' = emitted
    /\ UNCHANGED <<standaloneVars,
                   storeVars, queue, shutdown, retryVars, stopChan, now,
                   recordsToExport, currentAttempt, emitRecord, ret,
                   emitted, handed, exported, exceptions, atShutdown,
                   attempts, cycleStart>>

\* if p.shutdown.Load() { return nil }
FlushShutdownCheck ==
    /\ pc[Caller] = "ff_shutdown"
    /\ IF shutdown
       THEN ReturnToCaller("nil")
       ELSE /\ pc' = [pc EXCEPT ![Caller] = "ff_len"]
            /\ UNCHANGED <<ret, op, ctxDone>>
    /\ UNCHANGED <<standaloneVars,
                   storeVars, queue, shutdown, retryVars, stopChan, now,
                   recordsToExport, currentAttempt, emitRecord, historyVars,
                   cycleStart, counts>>

\* FlushLen that runs another cycle when the queue is empty.
FlushLenNoBreak ==
    /\ pc[Caller] = "ff_len"
    /\ pc' = [pc EXCEPT ![Caller] = "e_shutdown"]
    /\ UNCHANGED <<ret, op, ctxDone>>
    /\ UNCHANGED <<standaloneVars,
                   storeVars, queue, shutdown, retryVars, stopChan, now,
                   recordsToExport, currentAttempt, emitRecord, historyVars,
                   cycleStart, counts>>

\* queueLen == 0 breaks the loop (return nil); otherwise p.exportLogs().
FlushLen ==
    /\ pc[Caller] = "ff_len"
    /\ IF Len(queue) = 0
       THEN ReturnToCaller("nil")
       ELSE /\ pc' = [pc EXCEPT ![Caller] = "e_shutdown"]
            /\ UNCHANGED <<ret, op, ctxDone>>
    /\ UNCHANGED <<standaloneVars,
                   storeVars, queue, shutdown, retryVars, stopChan, now,
                   recordsToExport, currentAttempt, emitRecord, historyVars,
                   cycleStart, counts>>

\* select: ctx.Done() returns ctx.Err(), time.After(10ms) loops. A ctx that
\* is done already is chosen at once; a live one may still be cancelled
\* before the timer fires.
FlushSelect ==
    /\ pc[Caller] = "ff_select"
    /\ IF ctxDone
       THEN ReturnToCaller("ctxErr")
       ELSE \/ /\ pc' = [pc EXCEPT ![Caller] = "ff_len"]
               /\ UNCHANGED <<ret, op, ctxDone>>
            \/ ReturnToCaller("ctxErr")
    /\ UNCHANGED <<standaloneVars,
                   storeVars, queue, shutdown, retryVars, stopChan, now,
                   recordsToExport, currentAttempt, emitRecord, historyVars,
                   cycleStart, counts>>

\* select with a ctx that is not cancelled: time.After(10ms) fires, 10 ms
\* later. Once every backoff delay since lastRetryTimestamp has passed
\* (none exceeds 1.125 * MaxBackoff) a later time reads the same, and the
\* clock is left where it is.
FlushPause == 10
FlushTimer ==
    /\ pc[Caller] = "ff_select"
    /\ ~ctxDone
    /\ pc' = [pc EXCEPT ![Caller] = "ff_len"]
    /\ now' = IF now - lastRetryTimestamp >= MaxBackoff + MaxBackoff
              THEN now ELSE now + FlushPause
    /\ UNCHANGED <<standaloneVars,
                   storeVars, queue, shutdown, retryVars, stopChan,
                   recordsToExport, currentAttempt, emitRecord, op, ctxDone,
                   ret, historyVars, cycleStart, counts>>

\* ---------------------------------------------------------------- Shutdown
\* A thread calls Shutdown(ctx): p.shutdown.Swap(true).
CallShutdown ==
    /\ pc[Caller] = "idle"
    /\ counts.calls < MaxCalls
    /\ counts.restarts = 0
    /\ counts' = Bump("calls")
    /\ shutdown' = TRUE
    /\ IF ~shutdown
       THEN /\ op' = "Shutdown"
            /\ ctxDone' \in BOOLEAN
            /\ pc' = [pc EXCEPT ![Caller] = "sd_close"]
            /\ atShutdown' = QueueRecords(queue)
            /\ UNCHANGED ret
       ELSE /\ ret' = [ret EXCEPT ![Caller] = "nil"]
            /\ UNCHANGED <<op, ctxDone, pc, atShutdown>>
    /\ UNCHANGED <<standaloneVars,
                   storeVars, queue, retryVars, stopChan, now,
                   recordsToExport, currentAttempt, emitRecord, emitted,
                   handed, exported, exceptions, cycleStart, attempts,
                   atFlush>>

\* CallShutdownAgain with Load/Store in place of Swap's test: the later
\* call closes stopChan as well.
CallShutdownAgainClosing ==
    /\ shutdown
    /\ stopChan < 2
    /\ shutdown' = TRUE
    /\ stopChan' = stopChan + 1
    /\ ret' = [ret EXCEPT ![Other] = "nil"]
    /\ UNCHANGED <<standaloneVars,
                   storeVars, queue, retryVars, now, pc, recordsToExport,
                   currentAttempt, emitRecord, op, ctxDone, historyVars,
                   cycleStart, counts>>

\* Another thread calls Shutdown while or after the first call runs: Swap
\* returns true and the call returns nil.
CallShutdownAgain ==
    /\ shutdown
    /\ shutdown' = TRUE
    /\ ret' = [ret EXCEPT ![Other] = "nil"]
    /\ UNCHANGED <<standaloneVars,
                   storeVars, queue, retryVars, stopChan, now, pc,
                   recordsToExport, currentAttempt, emitRecord, op, ctxDone,
                   historyVars, cycleStart, counts>>

\* close(p.stopChan)
ShutdownClose ==
    /\ pc[Caller] = "sd_close"
    /\ stopChan' = stopChan + 1
    /\ pc' = [pc EXCEPT ![Caller] = "sd_wait"]
    /\ UNCHANGED <<standaloneVars,
                   storeVars, queue, shutdown, retryVars, now,
                   recordsToExport, currentAttempt, emitRecord, op, ctxDone,
                   ret, historyVars, cycleStart, counts>>

\* p.wg.Wait(), then return p.ForceFlush(ctx).
ShutdownWait ==
    /\ pc[Caller] = "sd_wait"
    /\ pc[Worker] = "exited"
    /\ pc' = [pc EXCEPT ![Caller] = "ff_shutdown"]
    /\ UNCHANGED <<standaloneVars,
                   storeVars, queue, shutdown, retryVars, stopChan, now,
                   recordsToExport, currentAttempt, emitRecord, op, ctxDone,
                   ret, historyVars, cycleStart, counts>>

\* ---------------------------------------------------------------- restart
\* The process ends and NewAuditLogProcessor is constructed over the same
\* storage: loadExistingRecords fills the queue and starts one export
\* goroutine, startBackgroundProcessing starts the worker.
Restart ==
    /\ counts.restarts < MaxRestarts
    /\ counts' = Bump("restarts")
    /\ fileStore' = NewAuditLogFileStore(fileStore.file)
    /\ queue' = pushAll(<<>>, GetAll)
    /\ shutdown' = FALSE
    /\ currentRetryAttempt' = 0
    /\ lastRetryTimestamp' = 0
    /\ stopChan' = 0
    /\ pc' = [t \in Procs |->
                IF t = Worker THEN "select"
                ELSE IF t = <<"async", 1>> THEN "e_shutdown"
                ELSE IF t \in Async THEN "free"
                ELSE "idle"]
    /\ recordsToExport' = [t \in Cyclers |-> <<>>]
    /\ currentAttempt' = [t \in Cyclers |-> 0]
    /\ emitRecord' = NoRecord
    /\ op' = "none"
    /\ ctxDone' = FALSE
    /\ ret' = [t \in {Caller, Emitter, Other} |-> "none"]
    /\ cycleStart' = [t \in Cyclers |-> {}]
    /\ atShutdown' = {}
    /\ atFlush' = {}
    /\ UNCHANGED <<standaloneVars,
                   storeKind, records, now, emitted, handed, exported,
                   exceptions, attempts>>

\* OnEmit, the export cycles and the ticker.
ProcessorSteps ==
    \/ \E record \in Records : EmitStart(record)
    \/ EmitSave
    \/ EmitPush
    \/ \E t \in Cyclers : CycleShutdownCheck(t)
    \/ \E t \in Cyclers : CycleEmptyCheck(t)
    \/ \E t \in Cyclers : CycleBackoffCheck(t)
    \/ \E t \in Cyclers : CyclePop(t)
    \/ \E t \in Cyclers : CycleExport(t)
    \/ \E t \in Cyclers : ExportSucceeds(t)
    \/ \E t \in Cyclers : ExportFails(t)
    \/ \E t \in Cyclers : SuccessResetTimestamp(t)
    \/ \E t \in Cyclers : SuccessRemoveAll(t)
    \/ \E t \in Cyclers : FailureTimestamp(t)
    \/ \E t \in Cyclers : FailureBranch(t)
    \/ \E t \in Cyclers : FailureGiveUp(t)
    \/ WorkerTick

\* ForceFlush and Shutdown calls, and the worker's exit they cause.
CallSteps ==
    \/ WorkerStop
    \/ CallForceFlush
    \/ FlushShutdownCheck
    \/ FlushLen
    \/ FlushSelect
    \/ CallShutdown
    \/ CallShutdownAgain
    \/ ShutdownClose
    \/ ShutdownWait

Next == ProcessorSteps \/ CallSteps

\* The processor over an AuditLogInMemoryStore.
Init == InitWith("memory")
Spec == Init /\ [][Next]_vars

\* The processor over an AuditLogFileStore whose Save can fail, ended at any
\* point and constructed again over the same file.
InitFile == InitWith("file")
NextFile == ProcessorSteps \/ EmitSaveFails \/ Restart
SpecFile == InitFile /\ [][NextFile]_vars

\* ------------------------------------------------ calls on their own
\* The four severities of a band, and every log.Severity: the 24 named
\* ones, SeverityUndefined (the zero value) and one beyond SeverityFatal4.
SubLevels(band) == {band, band \o "2", band \o "3", band \o "4"}
Bands == {"Trace", "Debug", "Info", "Warn", "Error", "Fatal"}
Severities ==
    UNION {SubLevels(band) : band \in Bands} \cup {"Undefined", "Severity(25)"}

\* Policies SetRetryPolicy accepts: InitialBackoff >= 0, MaxBackoff >= 0,
\* BackoffMultiplier > 0.
Policies ==
    [InitialBackoff : 0..MaxInitial, MaxBackoff : 0..MaxCap,
     BackoffMultiplier : 1..MaxMultiplier]

\* A store of the given kind after Save of each record of recs.
RECURSIVE storeWith(_, _)
storeWith(kind, recs) ==
    IF recs = <<>>
    THEN (IF kind = "memory" THEN <<>> ELSE NewAuditLogFileStore(<<>>))
    ELSE LET st == storeWith(kind, SubSeq(recs, 1, Len(recs) - 1))
             record == recs[Len(recs)]
         IN  IF kind = "memory" THEN memorySave(st, record)
             ELSE fileSave(st, record)

\* AuditLogStore.Save(ctx, record), record != nil, with every file
\* operation succeeding: neither store reads ctx.
storeSave(kind, st, ctxCancelled, record) ==
    [err |-> "nil",
     store |-> IF kind = "memory" THEN memorySave(st, record)
               ELSE fileSave(st, record)]

\* AuditLogStore.GetAll(ctx): the file store polls ctx.Done() before every
\* Decode, the first one included; the in-memory store does not read ctx.
storeGetAll(kind, st, ctxCancelled) ==
    IF kind = "file" /\ ctxCancelled
    THEN [err |-> "ctxErr", records |-> <<>>]
    ELSE [err |-> "nil",
          records |-> IF kind = "memory" THEN memoryGetAll(st)
                      ELSE fileGetAll(st)]

CallGetSeverityPriority ==
    /\ \E severity \in Severities :
          call' = [fn |-> "getSeverityPriority", severity |-> severity,
                   result |-> getSeverityPriority(severity)]
    /\ UNCHANGED <<processorVars, adapterVars>>

\* calculateRetryDelay(attemptNumber) under policy; previous is the nominal
\* delay of the attempt before it in the same retry sequence.
CallCalculateRetryDelay(policy, attemptNumber, previous, nano) ==
    /\ call' = [fn |-> "calculateRetryDelay", policy |-> policy,
                attemptNumber |-> attemptNumber, previous |-> previous,
                nominal |-> nominalDelay(policy, attemptNumber),
                result |-> retryDelay(policy, attemptNumber, nano)]
    /\ UNCHANGED <<processorVars, adapterVars>>

\* The first attempt of a retry sequence.
FirstRetryDelay ==
    \E policy \in Policies : \E nano \in NanoSamples :
        CallCalculateRetryDelay(policy, 1, 0, nano)

\* The next attempt of the retry sequence.
NextRetryDelay ==
    /\ call.fn = "calculateRetryDelay"
    /\ call.attemptNumber < MaxAttemptNumber
    /\ \E nano \in NanoSamples :
          CallCalculateRetryDelay(call.policy, call.attemptNumber + 1,
                                  call.nominal, nano)

\* Save on a store that holds the records of prior.
CallSave ==
    /\ \E kind \in {"memory", "file"} : \E ctxCancelled \in BOOLEAN :
       \E prior \in {<<>>} \cup {<<r>> : r \in Records} : \E record \in Records :
          LET st == storeWith(kind, prior)
              res == storeSave(kind, st, ctxCancelled, record)
          IN  call' = [fn |-> "Save", kind |-> kind,
                       ctxCancelled |-> ctxCancelled, record |-> record,
                       before |-> st, err |-> res.err, after |-> res.store]
    /\ UNCHANGED <<processorVars, adapterVars>>

\* GetAll on a store that holds the records of prior.
CallGetAll ==
    /\ \E kind \in {"memory", "file"} : \E ctxCancelled \in BOOLEAN :
       \E prior \in {<<>>} \cup {<<r>> : r \in Records} :
          LET st == storeWith(kind, prior)
              res == storeGetAll(kind, st, ctxCancelled)
          IN  call' = [fn |-> "GetAll", kind |-> kind,
                       ctxCancelled |-> ctxCancelled, before |-> st,
                       err |-> res.err, records |-> res.records]
    /\ UNCHANGED <<processorVars, adapterVars>>

\* The pop loop of exportLogs on a queue filled by heap.Push of recs.
CallPopBatch ==
    /\ \E n \in 0..MaxQueueLen : \E recs \in [1..n -> Records] :
       \E batchSize \in 1..MaxBatch :
          LET pq == pushAll(<<>>, recs)
              p == popBatchOf(pq, batchSize)
          IN  call' = [fn |-> "popBatch", queue |-> pq,
                       batchSize |-> batchSize, batch |-> p.batch,
                       rest |-> p.rest]
    /\ UNCHANGED <<processorVars, adapterVars>>

\* getSeverityPriority, calculateRetryDelay, the pop loop and the stores'
\* Save and GetAll called with every input of the bounded sets.
InitCalls == InitWith("memory")
NextCalls ==
    \/ CallGetSeverityPriority
    \/ CallPopBatch
    \/ FirstRetryDelay
    \/ NextRetryDelay
    \/ CallSave
    \/ CallGetAll
SpecCalls == InitCalls /\ [][NextCalls]_vars


\* ------------------------------------- AuditLogStorageExtensionAdapter
\* Lock taking the mutex without waiting for its holder.
LockNoWait(t) == mutex' = t

\* s.mutex.Lock(): waits until no thread holds the mutex.
Lock(t) == mutex = "free" /\ mutex' = t

\* The id of the record the call of thread t is working on.
CurrentID(t) == generateRecordID(kvcall[t].records[kvcall[t].i])

\* A call is made; it is contended when another thread holds the mutex.
KvCalled(t) ==
    [kvhist EXCEPT !.calls[t] = @ + 1, !.contended = @ \/ mutex # "free"]

\* The deferred s.mutex.Unlock() and the return of err to thread t.
KvReturn(t, err) ==
    /\ mutex' = "free"
    /\ kvpc' = [kvpc EXCEPT ![t] = "idle"]
    /\ kvret' = [kvret EXCEPT ![t] = [NoKvRet EXCEPT !.op = kvcall[t].op,
                                                     !.err = err]]
    /\ kvcall' = [kvcall EXCEPT ![t] = NoKvCall]

\* One more StorageClient call returns an error.
BackendFails ==
    /\ kvhist.failures < MaxBackendFailures
    /\ kvhist' = [kvhist EXCEPT !.failures = @ + 1]

\* Save(ctx, record), record != nil.
KvCallSave(t, record) ==
    /\ kvpc[t] = "idle"
    /\ kvhist.calls[t] < MaxAdapterCalls
    /\ kvcall' = [kvcall EXCEPT ![t] = [NoKvCall EXCEPT !.op = "Save",
                                           !.records = <<record>>, !.i = 1]]
    /\ kvpc' = [kvpc EXCEPT ![t] = "s_lock"]
    /\ kvhist' = KvCalled(t)
    /\ UNCHANGED <<processorVars, call, client, mutex, kvret>>

SaveLock(t) ==
    /\ kvpc[t] = "s_lock"
    /\ Lock(t)
    /\ kvpc' = [kvpc EXCEPT ![t] = "s_set"]
    /\ UNCHANGED <<processorVars, call, client, kvcall, kvret, kvhist>>

\* s.client.Set(ctx, recordKey, data) returns nil.
SaveSet(t) ==
    /\ kvpc[t] = "s_set"
    /\ client' = SetRecord(client, CurrentID(t),
                           serializeRecord(kvcall[t].records[1]))
    /\ kvpc' = [kvpc EXCEPT ![t] = "s_index"]
    /\ UNCHANGED <<processorVars, call, mutex, kvcall, kvret, kvhist>>

\* s.client.Set(ctx, recordKey, data) returns an error: so does Save.
SaveSetFails(t) ==
    /\ kvpc[t] = "s_set"
    /\ BackendFails
    /\ KvReturn(t, "failed to save record")
    /\ UNCHANGED <<processorVars, call, client>>

\* addToIndex: index, err := s.getIndex(ctx).
SaveGetIndex(t) ==
    /\ kvpc[t] = "s_index"
    /\ kvcall' = [kvcall EXCEPT ![t].index = getIndex(client)]
    /\ kvpc' = [kvpc EXCEPT ![t] = "s_index_set"]
    /\ UNCHANGED <<processorVars, call, client, mutex, kvret, kvhist>>

\* addToIndex: s.client.Get(ctx, s.indexKey) returns an error and getIndex
\* returns the empty index.
SaveGetIndexFails(t) ==
    /\ kvpc[t] = "s_index"
    /\ BackendFails
    /\ kvcall' = [kvcall EXCEPT ![t].index = <<>>]
    /\ kvpc' = [kvpc EXCEPT ![t] = "s_index_set"]
    /\ UNCHANGED <<processorVars, call, client, mutex, kvret>>

\* addToIndex: nil when the id is in the index read, else the index with
\* the id appended is Set; Save returns nil.
SaveSetIndex(t) ==
    /\ kvpc[t] = "s_index_set"
    /\ IF CurrentID(t) \in SeqToSet(kvcall[t].index)
       THEN UNCHANGED client
       ELSE client' = SetIndex(client, Append(kvcall[t].index, CurrentID(t)))
    /\ kvhist' = [kvhist EXCEPT !.saved = @ \cup {kvcall[t].records[1]},
                                !.live = @ \cup {CurrentID(t)},
                                !.order = IF CurrentID(t) \in SeqToSet(@)
                                          THEN @ ELSE Append(@, CurrentID(t))]
    /\ KvReturn(t, "nil")
    /\ UNCHANGED <<processorVars, call>>

\* addToIndex: s.client.Set(ctx, s.indexKey, data) returns an error.
SaveSetIndexFails(t) ==
    /\ kvpc[t] = "s_index_set"
    /\ CurrentID(t) \notin SeqToSet(kvcall[t].index)
    /\ BackendFails
    /\ KvReturn(t, "failed to add record to index")
    /\ UNCHANGED <<processorVars, call, client>>

\* RemoveAll(ctx, records), len(records) > 0; ids are the index ids under
\* which the records were loaded when they come from GetAll.
KvCallRemoveAll(t, batch, ids) ==
    /\ kvpc[t] = "idle"
    /\ kvhist.calls[t] < MaxAdapterCalls
    /\ kvcall' = [kvcall EXCEPT ![t] = [NoKvCall EXCEPT !.op = "RemoveAll",
                                           !.records = batch, !.ids = ids]]
    /\ kvpc' = [kvpc EXCEPT ![t] = "r_lock"]
    /\ kvhist' = KvCalled(t)
    /\ UNCHANGED <<processorVars, call, client, mutex, kvret>>

\* RemoveAll of the records the thread's last GetAll returned, as after a
\* successful export of replayed records.
KvCallRemoveLoaded(t) ==
    /\ kvret[t].op = "GetAll"
    /\ Len(kvret[t].records) > 0
    /\ KvCallRemoveAll(t, kvret[t].records, kvret[t].ids)

RemoveAllLock(t) ==
    /\ kvpc[t] = "r_lock"
    /\ Lock(t)
    /\ kvcall' = [kvcall EXCEPT ![t].i = 1]
    /\ kvpc' = [kvpc EXCEPT ![t] = "r_delete"]
    /\ kvhist' = [kvhist EXCEPT !.live =
                     @ \ {generateRecordID(kvcall[t].records[k]) :
                             k \in 1..Len(kvcall[t].records)}]
    /\ UNCHANGED <<processorVars, call, client, kvret>>

\* s.client.Delete(ctx, recordKey) returns nil.
RemoveDelete(t) ==
    /\ kvpc[t] = "r_delete"
    /\ client' = DeleteRecord(client, CurrentID(t))
    /\ kvpc' = [kvpc EXCEPT ![t] = "r_index"]
    /\ UNCHANGED <<processorVars, call, mutex, kvcall, kvret, kvhist>>

\* s.client.Delete(ctx, recordKey) returns an error: so does RemoveAll.
RemoveDeleteFails(t) ==
    /\ kvpc[t] = "r_delete"
    /\ BackendFails
    /\ KvReturn(t, "failed to delete record")
    /\ UNCHANGED <<processorVars, call, client>>

\* removeFromIndex: index, err := s.getIndex(ctx).
RemoveGetIndex(t) ==
    /\ kvpc[t] = "r_index"
    /\ kvcall' = [kvcall EXCEPT ![t].index = getIndex(client)]
    /\ kvpc' = [kvpc EXCEPT ![t] = "r_index_set"]
    /\ UNCHANGED <<processorVars, call, client, mutex, kvret, kvhist>>

\* removeFromIndex: s.client.Get(ctx, s.indexKey) returns an error and
\* getIndex returns the empty index.
RemoveGetIndexFails(t) ==
    /\ kvpc[t] = "r_index"
    /\ BackendFails
    /\ kvcall' = [kvcall EXCEPT ![t].index = <<>>]
    /\ kvpc' = [kvpc EXCEPT ![t] = "r_index_set"]
    /\ UNCHANGED <<processorVars, call, client, mutex, kvret>>

\* removeFromIndex: the index read, without the id, is Set; then the next
\* record, or RemoveAll returns nil.
RemoveSetIndex(t) ==
    /\ kvpc[t] = "r_index_set"
    /\ client' = SetIndex(client,
                     SelectSeq(kvcall[t].index, LAMBDA id : id # CurrentID(t)))
    /\ IF kvcall[t].i < Len(kvcall[t].records)
       THEN /\ kvcall' = [kvcall EXCEPT ![t].i = @ + 1]
            /\ kvpc' = [kvpc EXCEPT ![t] = "r_delete"]
            /\ UNCHANGED <<mutex, kvret>>
       ELSE KvReturn(t, "nil")
    /\ kvhist' = [kvhist EXCEPT !.order =
                     SelectSeq(@, LAMBDA id : id # CurrentID(t))]
    /\ UNCHANGED <<processorVars, call>>

\* removeFromIndex: s.client.Set(ctx, s.indexKey, data) returns an error.
RemoveSetIndexFails(t) ==
    /\ kvpc[t] = "r_index_set"
    /\ BackendFails
    /\ KvReturn(t, "failed to remove record from index")
    /\ UNCHANGED <<processorVars, call, client>>

\* GetAll(ctx) under s.mutex.RLock(): no writer holds the mutex.
AdapterGetAll(t) ==
    /\ kvpc[t] = "idle"
    /\ kvhist.calls[t] < MaxAdapterCalls
    /\ mutex = "free"
    /\ kvret' = [kvret EXCEPT ![t] = [op |-> "GetAll", err |-> "nil",
                                      records |-> adapterGetAll(client),
                                      ids |-> loadedIds(client)]]
    /\ kvhist' = KvCalled(t)
    /\ UNCHANGED <<processorVars, call, client, mutex, kvpc, kvcall>>

\* The batches RemoveAll is given directly.
RemoveBatches == {<<r>> : r \in KVRecords} \cup {<<K1, K3>>}

\* Two threads calling Save, RemoveAll and GetAll of one adapter whose
\* client may fail.
InitKV == InitWith("memory")
NextKV ==
    \E t \in KvThreads :
        \/ \E record \in KVRecords : KvCallSave(t, record)
        \/ SaveLock(t)
        \/ SaveSet(t)
        \/ SaveSetFails(t)
        \/ SaveGetIndex(t)
        \/ SaveSetIndex(t)
        \/ SaveSetIndexFails(t)
        \/ \E batch \in RemoveBatches : KvCallRemoveAll(t, batch, <<>>)
        \/ KvCallRemoveLoaded(t)
        \/ RemoveAllLock(t)
        \/ RemoveDelete(t)
        \/ RemoveDeleteFails(t)
        \/ RemoveGetIndex(t)
        \/ RemoveSetIndex(t)
        \/ RemoveSetIndexFails(t)
        \/ AdapterGetAll(t)
SpecKV == InitKV /\ [][NextKV]_vars

\* The same adapter over a client whose Get of the index key may fail too.
NextKVGet ==
    \/ NextKV
    \/ \E t \in KvThreads : SaveGetIndexFails(t)
    \/ \E t \in KvThreads : RemoveGetIndexFails(t)
SpecKVGet == InitKV /\ [][NextKVGet]_vars


\* ------------------------------------------------ ForceFlush to its end
\* A running processor constructed over an in-memory store that holds one or
\* two records; nothing is emitted any more, ForceFlush is called with a ctx
\* that is never cancelled, and the Exporter may fail any call.
InitFlush ==
    /\ storeKind = "memory"
    /\ records \in {memorySave(<<>>, R1), memorySave(memorySave(<<>>, R1), R3)}
    /\ fileStore = NewAuditLogFileStore(<<>>)
    /\ queue = pushAll(<<>>, GetAll)
    /\ shutdown = FALSE
    /\ currentRetryAttempt = 0
    /\ lastRetryTimestamp = 0
    /\ stopChan = 0
    /\ now = Epoch
    /\ pc = [t \in Procs |->
                IF t = Worker THEN "select"
                ELSE IF t \in Async THEN
                    (IF t = <<"async", 1>> THEN "e_shutdown" ELSE "free")
                ELSE "idle"]
    /\ recordsToExport = [t \in Cyclers |-> <<>>]
    /\ currentAttempt = [t \in Cyclers |-> 0]
    /\ emitRecord = NoRecord
    /\ op = "none"
    /\ ctxDone = FALSE
    /\ ret = [t \in {Caller, Emitter, Other} |-> "none"]
    /\ emitted = SeqToSet(GetAll)
    /\ handed = {}
    /\ exported = {}
    /\ cycleStart = [t \in Cyclers |-> {}]
    /\ exceptions = [count |-> 0, kind |-> "none", LogRecords |-> <<>>]
    /\ atShutdown = {}
    /\ attempts = [r \in Records |-> 0]
    /\ atFlush = {}
    /\ counts = [emits |-> 0, failures |-> 0, calls |-> 0, restarts |-> 0]
    /\ call = NoCall
    /\ InitAdapter

\* One step of goroutine t inside exportLogs; the Export call returns nil or
\* an error.
CycleStep(t) ==
    \/ CycleShutdownCheck(t)
    \/ CycleEmptyCheck(t)
    \/ CycleBackoffCheck(t)
    \/ CyclePop(t)
    \/ CycleExport(t)
    \/ ExportSucceeds(t)
    \/ ExportReturnsError(t)
    \/ SuccessResetTimestamp(t)
    \/ SuccessRemoveAll(t)
    \/ FailureTimestamp(t)
    \/ FailureBranch(t)
    \/ FailureGiveUp(t)

\* ForceFlush(ctx) with a ctx that is not cancelled.
CallForceFlushLive == CallForceFlush /\ ~ctxDone'

\* The steps of ForceFlush outside exportLogs.
FlushStep == FlushShutdownCheck \/ FlushLen \/ FlushTimer

NextFlush ==
    \/ \E t \in Cyclers : CycleStep(t)
    \/ WorkerTick
    \/ CallForceFlushLive
    \/ FlushStep

\* Every goroutine that can take a step is scheduled, every Export call
\* returns and the timer of ForceFlush fires; the ticker need not tick.
FairFlush ==
    /\ \A t \in Cyclers : WF_vars(CycleStep(t))
    /\ WF_vars(FlushStep)
SpecFlush == InitFlush /\ [][NextFlush]_vars /\ FairFlush

\* The in-memory processor after OnEmit(R1) returned nil, the Exporter failed
\* once and handleExportFailure pushed the batch back: one retry is pending.
\* counts.failures counts the failures after this state.
InitAfterFailure ==
    /\ storeKind = "memory"
    /\ records = memorySave(<<>>, R1)
    /\ fileStore = NewAuditLogFileStore(<<>>)
    /\ queue = pushAll(<<>>, <<R1>>)
    /\ shutdown = FALSE
    /\ currentRetryAttempt = 1
    /\ lastRetryTimestamp = Epoch
    /\ stopChan = 0
    /\ now = Epoch
    /\ pc = [t \in Procs |->
                IF t = Worker THEN "select"
                ELSE IF t \in Async THEN "free"
                ELSE "idle"]
    /\ recordsToExport = [t \in Cyclers |-> <<>>]
    /\ currentAttempt = [t \in Cyclers |-> 0]
    /\ emitRecord = NoRecord
    /\ op = "none"
    /\ ctxDone = FALSE
    /\ ret = [t \in {Caller, Emitter, Other} |->
                 IF t = Emitter THEN "nil" ELSE "none"]
    /\ emitted = {R1}
    /\ handed = {R1}
    /\ exported = {}
    /\ cycleStart = [t \in Cyclers |-> {}]
    /\ exceptions = [count |-> 0, kind |-> "none", LogRecords |-> <<>>]
    /\ atShutdown = {}
    /\ attempts = [r \in Records |-> IF r = R1 THEN 1 ELSE 0]
    /\ atFlush = {}
    /\ counts = [emits |-> 1, failures |-> 0, calls |-> 0, restarts |-> 0]
    /\ call = NoCall
    /\ InitAdapter
SpecAfterFailure == InitAfterFailure /\ [][Next]_vars


\* ================================================================ claims
ShutdownReturned == shutdown /\ pc[Caller] = "idle"

InFlight == {t \in Cyclers : pc[t] = "e_inflight"}

Priority(r) == getSeverityPriority(r.sev)

\* C1 (I1 durability): every record whose OnEmit returned nil is in the
\* journal (GetAll) until an Export call that included it returned nil.
C1_Durability ==
    \A r \in emitted : InJournal(r) \/ r \in exported

\* C2 (P1 restart replay): a record whose OnEmit returned nil and that was
\* never passed to the Exporter is in the queue of a processor newly
\* constructed over the same storage.
C2_RestartReplay ==
    [][counts'.restarts > counts.restarts =>
          \A r \in emitted \ handed : r \in QueueRecords(queue')]_vars

\* C3 (I4 monotone deletion): a record leaves the journal only in a step
\* after an Export call that included that record returned nil.
C3_DeleteOnlyExported ==
    [][\A r \in Records : (InJournal(r) /\ ~InJournal(r)') => r \in exported']_vars

\* C4 (graceful shutdown): when Shutdown has returned, no Export call has
\* failed and the ctx has not expired, every record that was queued when
\* Shutdown was called has been passed to Exporter.Export.
C4_ShutdownExportsQueue ==
    (ShutdownReturned /\ counts.failures = 0 /\ ~ctxDone) => atShutdown \subseteq handed

\* C5 (P8 emit-after-shutdown): shutdown never goes back to false, and an
\* OnEmit that starts when shutdown is set returns the ShutDown error, gives
\* the ExceptionHandler exactly one exception carrying that record, and
\* changes neither the journal nor the queue.
C5_EmitAfterShutdown ==
    [][/\ shutdown => shutdown'
       /\ (shutdown /\ counts'.emits > counts.emits) =>
             /\ ret'[Emitter] = "ShutDown"
             /\ pc'[Emitter] = "idle"
             /\ exceptions' = [count |-> exceptions.count + 1,
                               kind |-> "ShutDown",
                               LogRecords |-> <<emitRecord'>>]
             /\ emitRecord' \in Records
             /\ UNCHANGED <<records, fileStore, queue>>]_vars

C5_Witness ==
    /\ shutdown
    /\ ret[Emitter] = "ShutDown"
    /\ exceptions.kind = "ShutDown"
    /\ exceptions.LogRecords = <<emitRecord>>

\* C6 (P7 shutdown idempotence): stopChan is closed at most once, and a
\* Shutdown call made when shutdown is already set returns nil and changes
\* nothing else.
LaterShutdownCall ==
    /\ shutdown
    /\ \/ ret'[Other] # ret[Other]
       \/ counts'.calls > counts.calls /\ op' = "none"

C6_ShutdownIdempotent ==
    [][/\ stopChan' <= 1
       /\ LaterShutdownCall =>
             /\ ret'[Other] = "nil" \/ ret'[Caller] = "nil"
             /\ UNCHANGED <<storeVars, queue, shutdown, retryVars, stopChan,
                            pc, recordsToExport, currentAttempt, historyVars>>]_vars

C6_Witness == stopChan = 1 /\ ret[Other] = "nil"

\* C7 (shutdown timeout): when Shutdown has returned although its ctx had
\* expired and a record queued at the call is still queued and was never
\* passed to the Exporter, it returned the ctx error.
C7_ShutdownTimeout ==
    (ShutdownReturned /\ ctxDone
        /\ (atShutdown \cap QueueRecords(queue)) \ handed # {})
      => ret[Caller] = "ctxErr"

\* C8 (P5 batch bound, R2): every batch given to Exporter.Export has between
\* 1 and MaxExportBatchSize records, and a cycle that finds the queue empty
\* returns without calling the Exporter.
C8_BatchBound ==
    /\ [](\A t \in InFlight :
            /\ Len(recordsToExport[t]) >= 1
            /\ Len(recordsToExport[t]) <= MaxExportBatchSize)
    /\ [][\A t \in Cyclers :
            (pc[t] = "e_empty" /\ pc'[t] # "e_empty" /\ queue = <<>>) =>
                pc'[t] = AfterCycle(t) /\ handed' = handed]_vars

C8_Witness ==
    \E t \in InFlight :
        /\ Len(recordsToExport[t]) = MaxExportBatchSize
        /\ Len(queue) > 0

\* C9 (P4 priority): when a cycle hands a record r_lo to the Exporter, every
\* record r_hi of higher priority that was in the queue together with r_lo
\* when that cycle started has been handed over in an earlier call, or is
\* earlier in the same batch.
C9_PriorityOrder ==
    [][\A t \in Cyclers :
          (pc[t] = "e_len" /\ pc'[t] = "e_inflight") =>
             \A k \in 1..Len(recordsToExport[t]) : \A hi \in cycleStart[t] :
                (/\ recordsToExport[t][k] \in cycleStart[t]
                 /\ Priority(hi) > Priority(recordsToExport[t][k]))
                => \/ hi \in handed
                   \/ \E j \in 1..(k - 1) : recordsToExport[t][j] = hi]_vars

\* C10 (non-re-entrancy): at most one Exporter.Export call is in flight.
C10_OneExportInFlight == Cardinality(InFlight) <= 1

\* Every OnEmit call so far has returned nil, each with a different record.
DistinctEmits == Cardinality(emitted) = counts.emits

\* C11 (P3 bounded attempts): a record emitted once is passed to
\* Exporter.Export at most MaxAttempts+1 times, whatever else is emitted,
\* exported or failing in between.
C11_BoundedAttempts ==
    DistinctEmits => \A r \in Records : attempts[r] <= MaxAttempts + 1

\* One record has been emitted and no Export call has succeeded.
SingleFailingRecord ==
    counts.emits = 1 /\ Cardinality(emitted) = 1 /\ exported = {}

InFailureHandling ==
    \E t \in Cyclers : pc[t] \in {"f_ts", "f_branch", "f_reset_ts"}

\* C12 (retry exhaustion): with one emitted record and an exporter that
\* always fails, the ExceptionHandler is invoked exactly once, after exactly
\* MaxAttempts+1 failed Export calls, with the batch; then both retry
\* counters are 0, the record is not in the queue and it is still in the
\* journal.
C12_RetryExhaustion ==
    SingleFailingRecord =>
        \A r \in emitted :
            /\ exceptions.count <= 1
            /\ counts.failures <= MaxAttempts => exceptions.count = 0
            /\ (counts.failures >= MaxAttempts + 1 /\ ~InFailureHandling)
                   => exceptions.count = 1
            /\ exceptions.count = 1 =>
                   /\ exceptions.kind = "ExportFailedPermanently"
                   /\ exceptions.LogRecords = <<r>>
                   /\ counts.failures = MaxAttempts + 1
                   /\ attempts[r] = MaxAttempts + 1
                   /\ currentRetryAttempt = 0
                   /\ lastRetryTimestamp = 0
                   /\ r \notin QueueRecords(queue)
                   /\ InJournal(r)

C12_Witness ==
    /\ SingleFailingRecord
    /\ exceptions.kind = "ExportFailedPermanently"
    /\ counts.failures = MaxAttempts + 1

\* No OnEmit is in progress and no goroutine is inside exportLogs.
Quiescent ==
    /\ pc[Emitter] = "idle"
    /\ \A t \in Cyclers : pc[t] \in {"select", "exited", "free", "idle"}

\* C13 (P2 exactly-once): without export failures (and without RemoveAll
\* failures: in-memory store), a record emitted once is never passed to
\* Exporter.Export twice, and once the processor has been shut down with a
\* live ctx and is at rest, it has been passed to Exporter.Export exactly
\* once and is no longer in the journal.
C13_ExactlyOnce ==
    (DistinctEmits /\ counts.failures = 0) =>
        \A r \in emitted :
            /\ attempts[r] <= 1
            /\ (ShutdownReturned /\ ~ctxDone /\ Quiescent) =>
                   (attempts[r] = 1 /\ ~InJournal(r))

\* Number of journal entries equal to r.
JournalEntries(r) == Cardinality({i \in 1..Len(GetAll) : GetAll[i] = r})

\* C14 (P9 dedup): however often a record with the same (timestamp, body,
\* severity) is emitted, the journal holds at most one entry for it and,
\* when no export fails, it is delivered to the Exporter at most once.
C14_Dedup ==
    \A r \in Records :
        /\ JournalEntries(r) <= 1
        /\ counts.failures = 0 => attempts[r] <= 1

\* The step in which the Save call of OnEmit returns an error.
SaveFailedStep ==
    /\ pc[Emitter] = "em_save"
    /\ pc'[Emitter] = "idle"
    /\ counts' = counts

\* C15 (emit on journal failure): when Save fails inside OnEmit, the
\* ExceptionHandler is invoked once with the record, OnEmit returns the
\* error, the queue is unchanged, and the record is not returned by a later
\* GetAll unless it was in the journal before.
C15_EmitOnSaveFailure ==
    [][SaveFailedStep =>
          /\ exceptions' = [count |-> exceptions.count + 1,
                            kind |-> "StorageSave",
                            LogRecords |-> <<emitRecord>>]
          /\ ret'[Emitter] = "StorageSave"
          /\ queue' = queue
          /\ emitted' = emitted
          /\ InJournal(emitRecord)' => InJournal(emitRecord)]_vars

\* RemoveAll of goroutine t's batch returns an error in this step: ctx.Done()
\* was seen while a line of the batch was still in the file, which is left
\* as it was.
RemoveFailedStep(t) ==
    /\ pc[t] = "e_remove"
    /\ pc'[t] # "e_remove"
    /\ counts' = counts
    /\ storeKind = "file"
    /\ fileStore'.file = fileStore.file
    /\ \E i \in 1..Len(fileStore.file) : \E k \in 1..Len(recordsToExport[t]) :
          generateRecordId(decodeLine(fileStore.file[i]))
              = generateRecordId(recordsToExport[t][k])

\* C16 (StorageRemove handling): when RemoveAll fails after a successful
\* export, the ExceptionHandler is invoked with kind StorageRemove, the
\* exported records are not re-enqueued, and the retry counter is unchanged.
C16_StorageRemoveHandled ==
    [][\A t \in Cyclers :
          RemoveFailedStep(t) =>
             /\ exceptions'.count = exceptions.count + 1
             /\ exceptions'.kind = "StorageRemove"
             /\ queue' = queue
             /\ currentRetryAttempt' = currentRetryAttempt]_vars

\* A goroutine can be started for "go p.exportLogs()".
CanSpawn == \E a \in Async : pc[a] = "free"

ForceFlushReturns(value) ==
    /\ op = "ForceFlush"
    /\ op' = "none"
    /\ pc'[Caller] = "idle"
    /\ ret'[Caller] = value

\* C18 (ForceFlush postcondition): when ForceFlush returns nil on a running
\* processor and no Export call has failed, every record whose OnEmit had
\* returned nil before ForceFlush was called has been passed to
\* Exporter.Export.
C18_ForceFlushPost ==
    [][(ForceFlushReturns("nil") /\ ~shutdown /\ counts.failures = 0)
          => atFlush \subseteq handed']_vars

\* The step in which the body of ForceFlush returns, whether it was called
\* directly or by Shutdown.
FlushBodyReturns ==
    /\ pc[Caller] \in {"ff_shutdown", "ff_len", "ff_select"}
    /\ pc'[Caller] = "idle"

\* C19 (R3 ForceFlush cancellation): a ForceFlush that returns while its ctx
\* is cancelled and records are still in the queue returns the ctx error,
\* whatever state the processor is in.
C19_ForceFlushCancelled ==
    [][(FlushBodyReturns /\ ctxDone /\ Len(queue) > 0)
          => ret'[Caller] = "ctxErr"]_vars

\* C20 (I3 queue-journal consistency): every record in the queue has a
\* journal entry.
C20_QueueInJournal ==
    \A r \in QueueRecords(queue) : InJournal(r)

\* C22 (P6 backoff monotone): along a retry sequence attempt = 1, 2, 3, ...
\* the delay of calculateRetryDelay before jitter never exceeds MaxBackoff,
\* is 0 for attempt 1 and is never smaller than that of the attempt before.
C22_BackoffMonotone ==
    call.fn = "calculateRetryDelay" =>
        /\ call.nominal <= call.policy.MaxBackoff
        /\ (call.attemptNumber = 1 => call.nominal = 0)
        /\ (call.attemptNumber > 1 => call.previous <= call.nominal)

\* A third attempt whose delay grew and reached MaxBackoff.
C22_Witness ==
    /\ call.fn = "calculateRetryDelay"
    /\ call.attemptNumber = 3
    /\ 0 < call.previous
    /\ call.previous < call.nominal
    /\ call.nominal = call.policy.MaxBackoff

RECURSIVE Pow(_, _)
Pow(b, e) == IF e = 0 THEN 1 ELSE b * Pow(b, e - 1)

\* C23 (exponential backoff): the delay before jitter of retry attempt k is
\* InitialBackoff * BackoffMultiplier^(k-1), capped at MaxBackoff.
C23_ExponentialBackoff ==
    call.fn = "calculateRetryDelay" =>
        call.nominal =
            Min(call.policy.InitialBackoff
                    * Pow(call.policy.BackoffMultiplier, call.attemptNumber - 1),
                call.policy.MaxBackoff)

\* C25 (severity to priority): getSeverityPriority gives 6, 5, 4, 3, 2, 1 to
\* the four severities of the Fatal, Error, Warn, Info, Debug and Trace band
\* and 0 to every other severity.
C25_SeverityPriority ==
    call.fn = "getSeverityPriority" =>
        LET BandPriority == {<<"Fatal", 6>>, <<"Error", 5>>, <<"Warn", 4>>,
                             <<"Info", 3>>, <<"Debug", 2>>, <<"Trace", 1>>}
        IN  /\ \A bp \in BandPriority :
                  call.severity \in SubLevels(bp[1]) => call.result = bp[2]
            /\ (\A bp \in BandPriority : call.severity \notin SubLevels(bp[1]))
                  => call.result = 0

\* The last severity of the Fatal band was mapped.
C25_Witness ==
    /\ call.fn = "getSeverityPriority"
    /\ call.severity = "Fatal4"
    /\ call.result = 6

\* C29 (context cancellation): Save and GetAll of the file store and of the
\* in-memory store, called with a cancelled ctx, return an error, and Save
\* then leaves the store as it was.
C29_CancelledContext ==
    (call.fn \in {"Save", "GetAll"} /\ call.ctxCancelled) =>
        /\ call.err # "nil"
        /\ (call.fn = "Save" => call.after = call.before)

\* A retry is pending and, whatever the jitter, less than the backoff delay
\* of the current attempt has passed since lastRetryTimestamp.
BackoffPending == \A nano \in NanoSamples : InBackoff(nano)

\* Goroutine t pops records from the queue or calls Exporter.Export.
PopsOrExports(t) ==
    \/ pc[t] = "e_pop" /\ pc'[t] = "e_len" /\ Len(recordsToExport'[t]) > 0
    \/ pc[t] = "e_len" /\ pc'[t] = "e_inflight"

\* C24 (backoff gate): while a retry is pending and the backoff delay of the
\* current attempt has not passed, no export cycle pops records or calls
\* Exporter.Export, however the cycles interleave.
C24_BackoffGate ==
    [][BackoffPending => \A t \in Cyclers : ~PopsOrExports(t)]_vars

\* Goroutine t's RemoveAll call returns.
RemoveAllStep(t) == pc[t] = "e_remove" /\ pc'[t] # "e_remove"

\* C27 (RemoveAll frame): after RemoveAll(S) the journal holds exactly the
\* records stored before whose (timestamp, body, severity) differs from
\* that of every record of S, in their order.
C27_RemoveAllExact ==
    [][\A t \in Cyclers :
          RemoveAllStep(t) =>
             GetAll' = SelectSeq(GetAll,
                          LAMBDA x : x \notin SeqToSet(recordsToExport[t]))]_vars

\* C28 (file store keeps distinct records): when AuditLogFileStore.Save
\* returns nil the record is in the journal, whatever records of another
\* (timestamp, body, severity) the journal holds.
C28_FileStoreDistinct ==
    [][(pc[Emitter] = "em_save" /\ pc'[Emitter] = "em_push")
          => emitRecord \in SeqToSet(GetAll')]_vars

\* Thread t's GetAll call of the adapter returns.
AdapterGetAllStep(t) ==
    /\ kvpc[t] = "idle"
    /\ kvhist'.calls[t] = kvhist.calls[t] + 1
    /\ kvret'[t].op = "GetAll"
    /\ kvcall'[t] = kvcall[t]

\* C21 (I2 index coherence): whenever no Save or RemoveAll is in progress,
\* those that failed part-way included, every id of the index has its
\* record key set; and GetAll returns exactly the decoded records of the
\* index ids whose record key is set, in index order.
C21_IndexCoherence ==
    /\ [](mutex = "free" =>
             \A id \in SeqToSet(getIndex(client)) : id \in DOMAIN client.data)
    /\ [][\A t \in KvThreads :
             AdapterGetAllStep(t) =>
                LET present == SelectSeq(getIndex(client),
                                   LAMBDA id : id \in DOMAIN client.data)
                IN  /\ Len(kvret'[t].records) = Len(present)
                    /\ \A i \in 1..Len(present) :
                          kvret'[t].records[i]
                              = deserializeRecord(client.data[present[i]])]_vars

\* Thread t's RemoveAll of the records it loaded with GetAll returns nil.
RemoveLoadedReturns(t) ==
    /\ kvcall[t].op = "RemoveAll"
    /\ Len(kvcall[t].ids) > 0
    /\ kvpc[t] = "r_index_set"
    /\ kvpc'[t] = "idle"
    /\ kvret'[t].err = "nil"

\* C26 (R1 journal round trip): every record GetAll returns is a record
\* that was saved, with its timestamp, body and severity, and its record
\* id is the id under which it is stored; and when RemoveAll of the records
\* GetAll returned has returned nil, none of them is in the journal.
C26_RoundTrip ==
    /\ [](\A t \in KvThreads :
             kvret[t].op = "GetAll" =>
                \A i \in 1..Len(kvret[t].records) :
                   /\ kvret[t].records[i] \in kvhist.saved
                   /\ generateRecordID(kvret[t].records[i]) = kvret[t].ids[i])
    /\ [][\A t \in KvThreads :
             RemoveLoadedReturns(t) =>
                \A id \in SeqToSet(kvcall[t].ids) :
                   id \notin SeqToSet(loadedIds(client'))]_vars

Count(s, x) == Cardinality({i \in 1..Len(s) : s[i] = x})

\* handleExportFailure of goroutine t takes the currentAttempt <=
\* MaxAttempts branch and returns.
RequeueStep(t) ==
    /\ pc[t] = "f_branch"
    /\ currentAttempt[t] <= MaxAttempts
    /\ pc'[t] # "f_branch"

\* C31 (transient failure requeue): when handleExportFailure returns
\* through the currentAttempt <= MaxAttempts branch, the queue has gained
\* exactly the records of the failed batch, each with the priority of its
\* severity, lastRetryTimestamp is set, the journal is as it was and the
\* ExceptionHandler has not been called.
C31_TransientRequeue ==
    [][\A t \in Cyclers :
          RequeueStep(t) =>
             /\ \A r \in Records : \A p \in 0..6 :
                   Count(queue', [Record |-> r, Priority |-> p])
                      = Count(queue, [Record |-> r, Priority |-> p])
                        + (IF p = getSeverityPriority(r.sev)
                           THEN Count(recordsToExport[t], r) ELSE 0)
             /\ lastRetryTimestamp' # 0
             /\ GetAll' = GetAll
             /\ exceptions' = exceptions]_vars

\* C32 (success path): when the cycle of a successful Exporter.Export call
\* returns, currentRetryAttempt and lastRetryTimestamp are 0 and none of the
\* batch's records is in the queue or in the journal; and once the
\* processor is at rest with an empty queue and no Export call has failed,
\* the journal is empty.
C32_SuccessPath ==
    /\ [][\A t \in Cyclers :
             RemoveAllStep(t) =>
                /\ currentRetryAttempt' = 0
                /\ lastRetryTimestamp' = 0
                /\ \A r \in SeqToSet(recordsToExport[t]) :
                      /\ r \notin QueueRecords(queue')
                      /\ r \notin SeqToSet(GetAll')]_vars
    /\ []((Quiescent /\ ~shutdown /\ counts.failures = 0 /\ Len(queue) = 0)
             => GetAll = <<>>)

\* C33 (batch selection): the batch popped from a queue holds
\* min(MaxExportBatchSize, queue length) records, batch and remaining queue
\* together are the records the queue held, the batch is in non-increasing
\* priority order, and no record left in the queue has a higher priority
\* than a record of the batch.
C33_BatchSelection ==
    call.fn = "popBatch" =>
        LET before == [i \in 1..Len(call.queue) |-> call.queue[i].Record]
            left == [i \in 1..Len(call.rest) |-> call.rest[i].Record]
        IN  /\ Len(call.batch) = Min(call.batchSize, Len(call.queue))
            /\ \A r \in Records :
                  Count(call.batch, r) + Count(left, r) = Count(before, r)
            /\ \A i \in 1..Len(call.batch) : \A j \in i..Len(call.batch) :
                  Priority(call.batch[i]) >= Priority(call.batch[j])
            /\ \A i \in 1..Len(call.batch) : \A j \in 1..Len(left) :
                  Priority(left[j]) <= Priority(call.batch[i])

\* A batch of two records of different priority, taken from a queue that
\* keeps two records, one of them of a lower priority still.
C33_Witness ==
    /\ call.fn = "popBatch"
    /\ Len(call.batch) = 2
    /\ Len(call.rest) = 2
    /\ Priority(call.batch[1]) > Priority(call.batch[2])
    /\ \E j \in 1..2 : call.rest[j].Priority < Priority(call.batch[2])

\* Thread t's Save returns: the step that unlocks the mutex.
SaveReturns(t) ==
    /\ kvcall[t].op = "Save"
    /\ kvpc[t] \in {"s_set", "s_index_set"}
    /\ kvpc'[t] = "idle"

\* Thread t is inside RemoveAll, holding the mutex.
InRemoveAll(t) ==
    /\ kvcall[t].op = "RemoveAll"
    /\ kvpc[t] \in {"r_delete", "r_index", "r_index_set"}

\* C34 (journal order): two ids of the index whose Save returned nil, and
\* that no RemoveAll has taken out of the index since, stand in the index
\* in the order of the first of those Saves (kvhist.order); and every step
\* of a RemoveAll leaves the ids that stay in the index in the order they
\* had.
C34_JournalOrder ==
    /\ [](LET index == getIndex(client)
              order == kvhist.order
          IN  \A i, j \in 1..Len(index) :
                 (/\ i < j
                  /\ index[i] \in SeqToSet(order)
                  /\ index[j] \in SeqToSet(order)) =>
                    \E a, b \in 1..Len(order) :
                       a < b /\ order[a] = index[i] /\ order[b] = index[j])
    /\ [][\A t \in KvThreads :
             InRemoveAll(t) =>
                getIndex(client') =
                   SelectSeq(getIndex(client),
                             LAMBDA id : id \in SeqToSet(getIndex(client')))]_vars

\* C35 (append idempotence): no id is twice in the index; a Save of a
\* record whose id is in the index returns nil and leaves the index as it
\* was; and the Save of a record saved before, and not removed since,
\* leaves the whole client as it was.
C35_AppendIdempotence ==
    /\ [](LET index == getIndex(client)
          IN  \A i, j \in 1..Len(index) : index[i] = index[j] => i = j)
    /\ [][\A t \in KvThreads :
             (SaveReturns(t) /\ CurrentID(t) \in SeqToSet(getIndex(client))) =>
                /\ kvret'[t].err = "nil"
                /\ getIndex(client') = getIndex(client)]_vars
    /\ [][\A t \in KvThreads :
             (/\ kvcall[t].op = "Save"
              /\ kvpc[t] \in {"s_set", "s_index", "s_index_set"}
              /\ CurrentID(t) \in kvhist.live
              /\ CurrentID(t) \in SeqToSet(getIndex(client))) =>
                client' = client]_vars

\* C40 (Save preserves the index): when a Save returns, with nil or with an
\* error, every id that was in the index is in the index, whether the Get
\* of the index key succeeded or failed.
C40_SavePreservesIndex ==
    [][\A t \in KvThreads :
          SaveReturns(t) =>
             \A id \in SeqToSet(getIndex(client)) :
                id \in SeqToSet(getIndex(client'))]_vars

\* C37 (quiescence after Shutdown): when Shutdown has returned, the worker
\* goroutine has exited and no goroutine is in an Exporter.Export call or
\* at a RemoveAll call.
C37_QuiescentAfterShutdown ==
    ShutdownReturned =>
       /\ pc[Worker] = "exited"
       /\ \A t \in Cyclers : pc[t] \notin {"e_inflight", "e_remove"}

\* C38 (retry counter bounds): currentRetryAttempt is between 0 and
\* MaxAttempts + 1; it is MaxAttempts + 1 only while the goroutine that
\* counted that attempt is in handleExportFailure, about to store 0; and it
\* grows only when an Export call returns an error, an Export call that
\* returns nil leaving it 0.
C38_RetryCounterBounds ==
    /\ [](currentRetryAttempt \in 0..(MaxAttempts + 1))
    /\ [](currentRetryAttempt = MaxAttempts + 1 =>
             \E t \in Cyclers : /\ pc[t] \in {"f_ts", "f_branch"}
                                /\ currentAttempt[t] > MaxAttempts)
    /\ [][/\ currentRetryAttempt' > currentRetryAttempt =>
               \E t \in Cyclers : pc[t] = "e_inflight" /\ pc'[t] = "f_ts"
          /\ \A t \in Cyclers :
                (pc[t] = "e_inflight" /\ pc'[t] = "e_ok_ts") =>
                   currentRetryAttempt' = 0]_vars

\* The entries of the queue and of the local batches of the export cycles
\* that hold record r.
Holding(r) ==
    {<<<<"queue", 0>>, i>> :
        i \in {k \in 1..Len(queue) : queue[k].Record = r}}
    \cup UNION {{<<t, i>> : i \in {k \in 1..Len(recordsToExport[t]) :
                                      recordsToExport[t][k] = r}} :
                t \in Cyclers}

\* The cycles that end in this step after Export returned nil, or with the
\* batch handed to the ExceptionHandler as permanently failed.
Leaving ==
    {t \in Cyclers : pc[t] \in {"e_remove", "f_reset_ts"} /\ pc'[t] # pc[t]}

\* C36 (record conservation): a step changes the number of queue entries
\* and batch entries holding a record only by adding one when OnEmit pushes
\* the record, and by taking away the batch of a cycle that ends after a
\* successful Export or a permanent failure; and as long as no batch can
\* have failed permanently, every record whose OnEmit returned nil and that
\* no successful Export included is in the queue or in a local batch.
C36_RecordConservation ==
    /\ [][<<queue, recordsToExport>>' # <<queue, recordsToExport>> =>
             \A r \in Records :
                Cardinality(Holding(r)') =
                   Cardinality(Holding(r))
                   + (IF pc[Emitter] = "em_push" /\ pc'[Emitter] # "em_push"
                         /\ emitRecord = r THEN 1 ELSE 0)
                   - Cardinality({h \in Holding(r) : h[1] \in Leaving})]_vars
    /\ [](counts.failures <= MaxAttempts =>
             \A r \in emitted \ exported : Holding(r) # {})

\* Two export cycles hold a batch each, after one failed export whose batch
\* was pushed back.
C36_Witness ==
    /\ counts.failures >= 1
    /\ \E t, u \in Cyclers :
          /\ t # u
          /\ Len(recordsToExport[t]) > 0
          /\ Len(recordsToExport[u]) > 0
          /\ pc[t] = "e_inflight"
          /\ pc[u] = "e_inflight"

\* C39 (ForceFlush termination): a ForceFlush called on the running
\* processor, with nothing emitted meanwhile and a ctx that is never
\* cancelled, eventually returns nil, whether the Export calls return nil
\* or an error.
C39_ForceFlushTerminates ==
    (op = "ForceFlush") ~> (op = "none" /\ ret[Caller] = "nil")

\* ForceFlush has returned nil after a batch failed MaxAttempts + 1 times
\* and went to the ExceptionHandler; the queue is empty.
C39_Witness ==
    /\ counts.calls = 1
    /\ op = "none"
    /\ ret[Caller] = "nil"
    /\ exceptions.kind = "ExportFailedPermanently"
    /\ counts.failures >= MaxAttempts + 1
    /\ Len(queue) = 0

====
